---- MODULE Spec2Model ----
(***************************************************************************)
(* Model of DarcInc/testCustomType: a Go program that registers the        *)
(* Postgres composite type "resolution" on a pgx pool, reads the rows of   *)
(* "SELECT res FROM foo" into a nullable transfer struct (resolutionDTO),  *)
(* converts each to the application type Resolution and logs it.           *)
(*                                                                         *)
(* Go pointers are modelled as sequences of length at most one: <<>> is    *)
(* nil and <<v>> points to v.  Go's error values are modelled the same     *)
(* way: <<>> is a nil error, <<e>> an error whose text is e.  A rune is    *)
(* its code point.  Log lines and rendered values are strings.             *)
(***************************************************************************)
EXTENDS Integers, Sequences, FiniteSets, TLC

VARIABLES pc, log, calls, defers, poolConfig, pool, conn, rowset,
          oid, ctype, registered, hookErr,
          rows, some, res,
          stage, dto, first, rebuilt, again, text

vars == <<pc, log, calls, defers, poolConfig, pool, conn, rowset,
          oid, ctype, registered, hookErr,
          rows, some, res,
          stage, dto, first, rebuilt, again, text>>

mainVars == <<pc, log, calls, defers, poolConfig, pool, conn, rowset,
              oid, ctype, registered, hookErr, rows, some, res>>

convVars == <<stage, dto, first, rebuilt, again, text>>

(***************************************************************************)
(* Bounds and input domains                                                *)
(***************************************************************************)
MaxRows == 3

\* 'P', the scan mode substituted for a NULL scan field
RuneP == 80

Nil == <<>>
Ptr(v) == <<v>>
Deref(p) == p[1]

Widths == {-10, 10}
Heights == {10}
\* 'P' (progressive) and 'I' (interlaced)
Scans == {80, 73}
ConvWidths == {-10, 0, 10}
ConvHeights == {0, 10}
Errs == {"timeout"}
OIDs == {16385, 16402}

OptOf(S) == {Nil} \cup {Ptr(v) : v \in S}

\* type resolutionDTO struct { Width, Height *int; Scan *rune }
resolutionDTO(W, H, S) == [Width : OptOf(W), Height : OptOf(H), Scan : OptOf(S)]

\* type Resolution struct { Width, Height int; Scan rune }
ZeroResolution == [Width |-> 0, Height |-> 0, Scan |-> 0]

\* What rows.Scan(&some) leaves behind for one row: an error, or some = nil
\* (the composite is NULL), or some pointing to a DTO.
ScanResults ==
    {[err |-> Ptr(e), some |-> Nil] : e \in Errs}
    \cup {[err |-> Nil, some |-> Nil]}
    \cup {[err |-> Nil, some |-> Ptr(d)] : d \in resolutionDTO(Widths, Heights, Scans)}

(***************************************************************************)
(* fmt verbs                                                               *)
(***************************************************************************)
Digit == <<"0", "1", "2", "3", "4", "5", "6", "7", "8", "9">>

RECURSIVE FmtUnsigned(_)
FmtUnsigned(n) ==
    IF n < 10 THEN Digit[n + 1]
    ELSE FmtUnsigned(n \div 10) \o Digit[(n % 10) + 1]

\* %d
FmtD(n) == IF n < 0 THEN "-" \o FmtUnsigned(-n) ELSE FmtUnsigned(n)

\* %c for the code points the model uses; the NUL character and the Unicode
\* replacement character (printed for an invalid rune) are written as escapes.
FmtC(r) ==
    CASE r = 80 -> "P"
      [] r = 73 -> "I"
      [] r = 0 -> "\\x00"
      [] OTHER -> "\\uFFFD"

(***************************************************************************)
(* The mapper                                                              *)
(***************************************************************************)
\* A Resolution whose scan-mode default was forgotten (Go zero value).
AsResolutionZeroScan(rdto) ==
    [Width  |-> IF rdto.Width = Nil THEN 0 ELSE Deref(rdto.Width),
     Height |-> IF rdto.Height = Nil THEN 0 ELSE Deref(rdto.Height),
     Scan   |-> IF rdto.Scan = Nil THEN ZeroResolution.Scan ELSE Deref(rdto.Scan)]

\* Width and Height read from each other's pointer.
AsResolutionSwapped(rdto) ==
    [Width  |-> IF rdto.Height = Nil THEN 0 ELSE Deref(rdto.Height),
     Height |-> IF rdto.Width = Nil THEN 0 ELSE Deref(rdto.Width),
     Scan   |-> IF rdto.Scan = Nil THEN RuneP ELSE Deref(rdto.Scan)]

AsResolution(rdto) ==
    [Width  |-> IF rdto.Width = Nil THEN 0 ELSE Deref(rdto.Width),
     Height |-> IF rdto.Height = Nil THEN 0 ELSE Deref(rdto.Height),
     Scan   |-> IF rdto.Scan = Nil THEN RuneP ELSE Deref(rdto.Scan)]

\* Height printed before Width.
StringSwapped(r) ==
    "[" \o FmtD(r.Height) \o ", " \o FmtD(r.Width) \o "] at " \o FmtC(r.Scan)

\* fmt.Sprintf("[%d, %d] at %c", r.Width, r.Height, r.Scan)
String(r) ==
    "[" \o FmtD(r.Width) \o ", " \o FmtD(r.Height) \o "] at " \o FmtC(r.Scan)

(***************************************************************************)
(* main: setup                                                             *)
(***************************************************************************)
\* log.Printf(format, arg) with one %v verb at the end of the format
Printf(prefix, arg) == Append(log, prefix \o arg)

\* log.Fatalf: the line is written and os.Exit(1) ends the process at once;
\* deferred calls do not run.
Fatalf(prefix, arg) ==
    /\ log' = Printf(prefix, arg)
    /\ pc' = "exit"

\* A failed Acquire that is only logged with log.Printf.
AcquirePrintf ==
    /\ pc = "acquire"
    /\ calls' = Append(calls, "pool.Acquire")
    /\ \/ /\ conn' = "acquired"
          /\ defers' = Append(defers, "conn.Release")
          /\ pc' = "query"
          /\ UNCHANGED log
       \/ \E e \in Errs :
            /\ log' = Printf("Failed to acquire a connection from the pool: ", e)
            /\ pc' = "query"
            /\ UNCHANGED <<conn, defers>>
    /\ UNCHANGED <<poolConfig, pool, rowset, oid, ctype, registered, hookErr,
                   rows, some, res>>
    /\ UNCHANGED convVars

\* Step 1: pgxpool.ParseConfig(DBURI)
ParseConfig ==
    /\ pc = "parse"
    /\ calls' = Append(calls, "pgxpool.ParseConfig")
    /\ \/ /\ poolConfig' = "parsed"
          /\ pc' = "connect"
          /\ UNCHANGED log
       \/ \E e \in Errs :
            /\ Fatalf("Failed to parse config: ", e)
            /\ UNCHANGED poolConfig
    /\ UNCHANGED <<defers, pool, conn, rowset, oid, ctype, registered, hookErr,
                   rows, some, res>>
    /\ UNCHANGED convVars

\* Step 3: pgxpool.ConnectConfig is called; it either fails before a
\* connection exists, or establishes one and runs poolConfig.AfterConnect.
ConnectConfig ==
    /\ pc = "connect"
    /\ calls' = Append(calls, "pgxpool.ConnectConfig")
    /\ \/ /\ pc' = "hook_oid"
          /\ UNCHANGED log
       \/ \E e \in Errs : Fatalf("Bailing - no database connection: ", e)
    /\ UNCHANGED <<defers, poolConfig, pool, conn, rowset, oid, ctype, registered,
                   hookErr, rows, some, res>>
    /\ UNCHANGED convVars

\* ConnectConfig returns: the hook's error is the connect error.
ConnectReturn ==
    /\ pc = "hook_return"
    /\ IF hookErr = Nil
         THEN /\ pool' = "open"
              /\ defers' = Append(defers, "pool.Close")
              /\ pc' = "acquire"
              /\ UNCHANGED log
         ELSE /\ Fatalf("Bailing - no database connection: ", Deref(hookErr))
              /\ UNCHANGED <<pool, defers>>
    /\ UNCHANGED <<calls, poolConfig, conn, rowset, oid, ctype, registered, hookErr,
                   rows, some, res>>
    /\ UNCHANGED convVars

\* Step 4: pool.Acquire
Acquire ==
    /\ pc = "acquire"
    /\ calls' = Append(calls, "pool.Acquire")
    /\ \/ /\ conn' = "acquired"
          /\ defers' = Append(defers, "conn.Release")
          /\ pc' = "query"
          /\ UNCHANGED log
       \/ \E e \in Errs :
            /\ Fatalf("Failed to acquire a connection from the pool: ", e)
            /\ UNCHANGED <<conn, defers>>
    /\ UNCHANGED <<poolConfig, pool, rowset, oid, ctype, registered, hookErr,
                   rows, some, res>>
    /\ UNCHANGED convVars

\* conn.Query("SELECT res FROM foo")
Query ==
    /\ pc = "query"
    /\ calls' = Append(calls, "conn.Query")
    /\ \/ /\ rowset' = "open"
          /\ defers' = Append(defers, "rows.Close")
          /\ pc' = "next"
          /\ UNCHANGED log
       \/ \E e \in Errs :
            /\ Fatalf("Bailing - query failed: ", e)
            /\ UNCHANGED <<rowset, defers>>
    /\ UNCHANGED <<poolConfig, pool, conn, oid, ctype, registered, hookErr,
                   rows, some, res>>
    /\ UNCHANGED convVars

(***************************************************************************)
(* poolConfig.AfterConnect                                                 *)
(***************************************************************************)
\* A failed OID lookup that is logged but not returned.
HookScanOidNoReturn ==
    /\ pc = "hook_oid"
    /\ \/ \E o \in OIDs :
            /\ oid' = o
            /\ UNCHANGED log
       \/ \E e \in Errs :
            /\ log' = Printf("Failed to scan oid: ", e)
            /\ UNCHANGED oid
    /\ pc' = "hook_ctype"
    /\ UNCHANGED <<calls, defers, poolConfig, pool, conn, rowset, ctype, registered,
                   hookErr, rows, some, res>>
    /\ UNCHANGED convVars

\* row := conn.QueryRow("select 'resolution'::regtype::oid"); row.Scan(&oid)
HookScanOid ==
    /\ pc = "hook_oid"
    /\ \/ \E o \in OIDs :
            /\ oid' = o
            /\ pc' = "hook_ctype"
            /\ UNCHANGED <<log, hookErr>>
       \/ \E e \in Errs :
            /\ log' = Printf("Failed to scan oid: ", e)
            /\ hookErr' = Ptr(e)
            /\ pc' = "hook_return"
            /\ UNCHANGED oid
    /\ UNCHANGED <<calls, defers, poolConfig, pool, conn, rowset, ctype, registered,
                   rows, some, res>>
    /\ UNCHANGED convVars

\* ctype, err := pgtype.NewCompositeType("resolution", fields, conn.ConnInfo())
HookNewCompositeType ==
    /\ pc = "hook_ctype"
    /\ \/ /\ ctype' = Ptr("resolution")
          /\ pc' = "hook_register"
          /\ UNCHANGED <<log, hookErr>>
       \/ \E e \in Errs :
            /\ log' = Printf("Failed to register new type: ", e)
            /\ hookErr' = Ptr(e)
            /\ pc' = "hook_return"
            /\ UNCHANGED ctype
    /\ UNCHANGED <<calls, defers, poolConfig, pool, conn, rowset, oid, registered,
                   rows, some, res>>
    /\ UNCHANGED convVars

\* ctype.TypeName()
TypeName(c) == Deref(c)

\* conn.ConnInfo().RegisterDataType({Value: ctype, Name: ctype.TypeName(), OID: oid})
\* return nil
HookRegister ==
    /\ pc = "hook_register"
    /\ registered' = registered \cup {[Value |-> ctype, Name |-> TypeName(ctype), OID |-> oid]}
    /\ pc' = "hook_return"
    /\ UNCHANGED <<log, calls, defers, poolConfig, pool, conn, rowset, oid, ctype,
                   hookErr, rows, some, res>>
    /\ UNCHANGED convVars

(***************************************************************************)
(* main: the read loop                                                     *)
(***************************************************************************)
\* for rows.Next(): the store yields the next row, or reports the end.
RowsNext ==
    /\ pc = "next"
    /\ calls' = Append(calls, "rows.Next")
    /\ \/ /\ Len(rows) < MaxRows
          /\ \E r \in ScanResults : rows' = Append(rows, r)
          /\ pc' = "body"
       \/ /\ pc' = "return"
          /\ UNCHANGED rows
    /\ UNCHANGED <<log, defers, poolConfig, pool, conn, rowset, oid, ctype,
                   registered, hookErr, some, res>>
    /\ UNCHANGED convVars

\* A NULL composite converted as if it were a DTO with every field NULL.
BodyNoNilCheck(row) ==
    IF row.err # Nil
      THEN [some |-> row.some, res |-> <<>>, pc |-> "next",
            log |-> Printf("Failed to scan: ", Deref(row.err))]
      ELSE LET d == IF row.some # Nil THEN Deref(row.some)
                    ELSE [Width |-> Nil, Height |-> Nil, Scan |-> Nil]
               r == AsResolution(d)
           IN  [some |-> row.some, res |-> <<r>>, pc |-> "next",
                log |-> Printf("Got ", String(r))]

\* A failed scan that is skipped without a log line.
BodySilentFailure(row) ==
    IF row.err # Nil
      THEN [some |-> row.some, res |-> <<>>, pc |-> "next", log |-> log]
      ELSE IF row.some # Nil
        THEN LET r == AsResolution(Deref(row.some))
             IN  [some |-> row.some, res |-> <<r>>, pc |-> "next",
                  log |-> Printf("Got ", String(r))]
        ELSE [some |-> row.some, res |-> <<>>, pc |-> "next",
              log |-> Printf("No defined resolution", "")]

\* The result kept across iterations, Width added to instead of assigned.
BodyAccumulate(row) ==
    IF row.err # Nil
      THEN [some |-> row.some, res |-> res, pc |-> "next",
            log |-> Printf("Failed to scan: ", Deref(row.err))]
      ELSE IF row.some # Nil
        THEN LET c == AsResolution(Deref(row.some))
                 r == IF res = <<>> THEN c
                      ELSE [c EXCEPT !.Width = res[1].Width + c.Width]
             IN  [some |-> row.some, res |-> <<r>>, pc |-> "next",
                  log |-> Printf("Got ", String(r))]
        ELSE [some |-> row.some, res |-> res, pc |-> "next",
              log |-> Printf("No defined resolution", "")]

\* A failed scan reported with log.Fatalf.
BodyFatalOnScanError(row) ==
    IF row.err # Nil
      THEN [some |-> row.some, res |-> <<>>, pc |-> "exit",
            log |-> Printf("Failed to scan: ", Deref(row.err))]
      ELSE IF row.some # Nil
        THEN LET r == AsResolution(Deref(row.some))
             IN  [some |-> row.some, res |-> <<r>>, pc |-> "next",
                  log |-> Printf("Got ", String(r))]
        ELSE [some |-> row.some, res |-> <<>>, pc |-> "next",
              log |-> Printf("No defined resolution", "")]

\* The loop body as a function of the scanned row: the new some, the results
\* of the AsResolution calls made, the log with the line written, and where
\* control goes (every branch falls through to the next rows.Next()).
Body(row) ==
    IF row.err # Nil
      THEN [some |-> row.some, res |-> <<>>, pc |-> "next",
            log |-> Printf("Failed to scan: ", Deref(row.err))]
      ELSE IF row.some # Nil
        THEN LET r == AsResolution(Deref(row.some))
             IN  [some |-> row.some, res |-> <<r>>, pc |-> "next",
                  log |-> Printf("Got ", String(r))]
        ELSE [some |-> row.some, res |-> <<>>, pc |-> "next",
              log |-> Printf("No defined resolution", "")]

\* var some *resolutionDTO; rows.Scan(&some); one log line
LoopBody ==
    /\ pc = "body"
    /\ calls' = Append(calls, "rows.Scan")
    /\ LET out == Body(rows[Len(rows)])
       IN  /\ some' = out.some
           /\ res' = out.res
           /\ log' = out.log
           /\ pc' = out.pc
    /\ UNCHANGED <<defers, poolConfig, pool, conn, rowset, oid, ctype, registered,
                   hookErr, rows>>
    /\ UNCHANGED convVars

Reverse(s) == [i \in 1..Len(s) |-> s[Len(s) + 1 - i]]

InSeq(x, s) == \E i \in 1..Len(s) : s[i] = x

\* main returns: the deferred calls run, last deferred first.
MainReturn ==
    /\ pc = "return"
    /\ calls' = calls \o Reverse(defers)
    /\ rowset' = IF InSeq("rows.Close", defers) THEN "closed" ELSE rowset
    /\ conn' = IF InSeq("conn.Release", defers) THEN "released" ELSE conn
    /\ pool' = IF InSeq("pool.Close", defers) THEN "closed" ELSE pool
    /\ defers' = <<>>
    /\ pc' = "done"
    /\ UNCHANGED <<log, poolConfig, oid, ctype, registered, hookErr, rows, some, res>>
    /\ UNCHANGED convVars

Init ==
    /\ pc = "parse"
    /\ log = <<>>
    /\ calls = <<>>
    /\ defers = <<>>
    /\ poolConfig = "none"
    /\ pool = "none"
    /\ conn = "none"
    /\ rowset = "none"
    /\ oid = 0
    /\ ctype = Nil
    /\ registered = {}
    /\ hookErr = Nil
    /\ rows = <<>>
    /\ some = Nil
    /\ res = <<>>
    /\ stage = "off"
    /\ dto = Nil
    /\ first = Nil
    /\ rebuilt = Nil
    /\ again = Nil
    /\ text = ""

Next ==
    \/ ParseConfig
    \/ ConnectConfig
    \/ HookScanOid
    \/ HookNewCompositeType
    \/ HookRegister
    \/ ConnectReturn
    \/ Acquire
    \/ Query
    \/ RowsNext
    \/ LoopBody
    \/ MainReturn

Spec == Init /\ [][Next]_vars

(***************************************************************************)
(* The mapper on its own: convert a DTO, render the result, build a DTO    *)
(* with every field present from the result, and convert that.             *)
(***************************************************************************)
Convert ==
    /\ stage = "input"
    /\ first' = Ptr(AsResolution(Deref(dto)))
    /\ stage' = "converted"
    /\ UNCHANGED <<dto, rebuilt, again, text>>
    /\ UNCHANGED mainVars

Render ==
    /\ stage = "converted"
    /\ text' = String(Deref(first))
    /\ stage' = "rendered"
    /\ UNCHANGED <<dto, first, rebuilt, again>>
    /\ UNCHANGED mainVars

\* resolutionDTO{Width: &r.Width, Height: &r.Height, Scan: &r.Scan}
Rebuild ==
    /\ stage = "rendered"
    /\ LET r == Deref(first)
       IN  rebuilt' = Ptr([Width |-> Ptr(r.Width), Height |-> Ptr(r.Height),
                           Scan |-> Ptr(r.Scan)])
    /\ stage' = "rebuilt"
    /\ UNCHANGED <<dto, first, again, text>>
    /\ UNCHANGED mainVars

Reconvert ==
    /\ stage = "rebuilt"
    /\ again' = Ptr(AsResolution(Deref(rebuilt)))
    /\ stage' = "reconverted"
    /\ UNCHANGED <<dto, first, rebuilt, text>>
    /\ UNCHANGED mainVars

ConvInit ==
    /\ pc = "off"
    /\ log = <<>>
    /\ calls = <<>>
    /\ defers = <<>>
    /\ poolConfig = "none"
    /\ pool = "none"
    /\ conn = "none"
    /\ rowset = "none"
    /\ oid = 0
    /\ ctype = Nil
    /\ registered = {}
    /\ hookErr = Nil
    /\ rows = <<>>
    /\ some = Nil
    /\ res = <<>>
    /\ stage = "input"
    /\ dto \in {Ptr(d) : d \in resolutionDTO(ConvWidths, ConvHeights, Scans)}
    /\ first = Nil
    /\ rebuilt = Nil
    /\ again = Nil
    /\ text = ""

ConvNext ==
    \/ Convert
    \/ Render
    \/ Rebuild
    \/ Reconvert

ConvSpec == ConvInit /\ [][ConvNext]_vars

(***************************************************************************)
(* Properties                                                              *)
(***************************************************************************)
HasPrefix(s, p) == Len(s) >= Len(p) /\ SubSeq(s, 1, Len(p)) = p

\* The decimal text and the character of the values the inputs are drawn
\* from, written out.
Decimal(n) ==
    CASE n = -10 -> "-10"
      [] n = 0 -> "0"
      [] n = 10 -> "10"

Character(r) ==
    CASE r = 80 -> "P"
      [] r = 73 -> "I"

\* main is in or past the read loop
InLoop == pc \in {"next", "body", "return", "done"}

\* the number of rows whose loop body has run
Handled == IF pc = "body" THEN Len(rows) - 1 ELSE Len(rows)

\* C1: for every DTO, AsResolution carries each present field through
\* unchanged (negative values too), turns an absent Width into 0, an absent
\* Height into 0 and an absent Scan into 'P' (80); every one of the 8
\* present/absent combinations converts.
C1_Defaulting ==
    /\ stage = "input" => ENABLED Convert
    /\ stage # "input" =>
         /\ first # Nil
         /\ LET t == Deref(dto)
                r == Deref(first)
            IN  /\ r.Width = (IF t.Width = Nil THEN 0 ELSE t.Width[1])
                /\ r.Height = (IF t.Height = Nil THEN 0 ELSE t.Height[1])
                /\ r.Scan = (IF t.Scan = Nil THEN 80 ELSE t.Scan[1])

C1_Witness ==
    /\ stage = "converted"
    /\ dto = <<[Width |-> <<-10>>, Height |-> <<>>, Scan |-> <<>>]>>
    /\ first = <<[Width |-> -10, Height |-> 0, Scan |-> 80]>>

\* C2: a row whose composite is NULL (some = nil after a successful scan) is
\* answered with the line "No defined resolution"; AsResolution is not
\* called for it and no "Got ..." line is written for it.
C2_NullComposite ==
    InLoop =>
      \A i \in 1..Handled :
        (rows[i].err = Nil /\ rows[i].some = Nil) =>
          /\ i <= Len(log)
          /\ log[i] = "No defined resolution"
          /\ ~HasPrefix(log[i], "Got ")
          /\ (i = Handled => res = <<>>)

C2_Witness ==
    /\ pc = "next"
    /\ Len(rows) = 2
    /\ rows[2] = [err |-> <<>>, some |-> <<>>]
    /\ log[2] = "No defined resolution"

\* C3: the loop writes exactly one line per fetched row, in fetch order; for
\* a row that scans to a DTO, AsResolution is called once and the line is
\* "Got " followed by the rendering of the converted value.
C3_OneLinePerRow ==
    InLoop =>
      /\ Len(log) = Handled
      /\ \A i \in 1..Handled :
           (rows[i].err = Nil /\ rows[i].some # Nil) =>
             LET t == rows[i].some[1]
                 w == IF t.Width = Nil THEN 0 ELSE t.Width[1]
                 h == IF t.Height = Nil THEN 0 ELSE t.Height[1]
                 c == IF t.Scan = Nil THEN 80 ELSE t.Scan[1]
             IN  /\ i <= Len(log)
                 /\ log[i] = "Got [" \o Decimal(w) \o ", " \o Decimal(h) \o "] at "
                                \o Character(c)
                 /\ (i = Handled =>
                       res = <<[Width |-> w, Height |-> h, Scan |-> c]>>)

C3_Witness ==
    /\ pc = "next"
    /\ Len(rows) = 2
    /\ rows[1] = [err |-> <<>>, some |-> <<>>]
    /\ rows[2] = [err |-> <<>>,
                  some |-> <<[Width |-> <<-10>>, Height |-> <<10>>, Scan |-> <<>>]>>]
    /\ log = <<"No defined resolution", "Got [-10, 10] at P">>

\* C4: String() is "[", Width in decimal, ", ", Height in decimal, "] at ",
\* the Scan character; {10,10,'P'}, {0,0,'P'} and {-10,10,'P'} render as
\* "[10, 10] at P", "[0, 0] at P" and "[-10, 10] at P".
C4_Rendering ==
    stage \in {"rendered", "rebuilt", "reconverted"} =>
      LET r == Deref(first)
      IN  /\ text = "[" \o Decimal(r.Width) \o ", " \o Decimal(r.Height) \o "] at "
                      \o Character(r.Scan)
          /\ r = [Width |-> 10, Height |-> 10, Scan |-> 80] => text = "[10, 10] at P"
          /\ r = [Width |-> 0, Height |-> 0, Scan |-> 80] => text = "[0, 0] at P"
          /\ r = [Width |-> -10, Height |-> 10, Scan |-> 80] => text = "[-10, 10] at P"

C4_Witness ==
    /\ stage = "rendered"
    /\ first = <<[Width |-> -10, Height |-> 10, Scan |-> 80]>>
    /\ text = "[-10, 10] at P"

\* C5: converting the DTO built, every field present, from AsResolution(t)
\* gives AsResolution(t) again.
C5_Idempotent ==
    stage = "reconverted" =>
      /\ rebuilt[1].Width # Nil /\ rebuilt[1].Height # Nil /\ rebuilt[1].Scan # Nil
      /\ again = first

C5_Witness ==
    /\ stage = "reconverted"
    /\ dto = <<[Width |-> <<-10>>, Height |-> <<>>, Scan |-> <<>>]>>
    /\ again = <<[Width |-> -10, Height |-> 0, Scan |-> 80]>>

\* C6: the scanned value is left as it was scanned, and two rows with the
\* same value get the same line wherever they stand in the row sequence.
C6_Stateless ==
    InLoop =>
      /\ (Handled > 0 => some = rows[Handled].some)
      /\ \A i, j \in 1..Handled :
           rows[i] = rows[j] => (i <= Len(log) /\ j <= Len(log) /\ log[i] = log[j])

C6_Witness ==
    /\ pc = "next"
    /\ Len(rows) = 2
    /\ rows[1] = rows[2]
    /\ rows[1].some = <<[Width |-> <<10>>, Height |-> <<>>, Scan |-> <<73>>]>>
    /\ log = <<"Got [10, 0] at I", "Got [10, 0] at I">>

SetupOrder ==
    <<"pgxpool.ParseConfig", "pgxpool.ConnectConfig", "pool.Acquire", "conn.Query">>

FatalPrefixes ==
    <<"Failed to parse config: ", "Bailing - no database connection: ",
      "Failed to acquire a connection from the pool: ", "Bailing - query failed: ">>

\* C8: the setup calls are made in the order ParseConfig, ConnectConfig,
\* Acquire, Query; a failing one is logged and ends the process with no later
\* call made; no row is fetched, scanned or logged unless all four succeeded.
C8_SetupAbort ==
    /\ \A i \in 1..Len(calls) : i <= 4 => calls[i] = SetupOrder[i]
    /\ pc = "exit" =>
         /\ Len(calls) \in 1..4
         /\ HasPrefix(log[Len(log)], FatalPrefixes[Len(calls)])
         /\ rows = <<>>
    /\ (Len(calls) > 4 \/ rows # <<>> \/ pc \in {"next", "body", "return", "done"}) =>
         /\ poolConfig = "parsed"
         /\ pool # "none"
         /\ conn # "none"
         /\ rowset # "none"
         /\ \A i \in 1..Len(log) : \A k \in 1..4 : ~HasPrefix(log[i], FatalPrefixes[k])

C8_Witness ==
    /\ pc = "exit"
    /\ calls = <<"pgxpool.ParseConfig", "pgxpool.ConnectConfig", "pool.Acquire">>
    /\ log = <<"Failed to acquire a connection from the pool: timeout">>

\* C9: whenever the process has ended, by returning from main or by
\* log.Fatalf, every resource acquired has been released: the row set is
\* closed, the connection released and the pool closed.
C9_ReleasedAtTermination ==
    pc \in {"done", "exit"} =>
      /\ rowset # "open"
      /\ conn # "acquired"
      /\ pool # "open"

\* C10: in AfterConnect the type is registered only after the OID lookup and
\* NewCompositeType both succeeded, under the name "resolution" and the OID
\* looked up; when either fails the hook logs, returns the error and
\* registers nothing.
C10_HookRegisters ==
    /\ \A d \in registered :
         /\ d.Name = "resolution"
         /\ d.Value = <<"resolution">>
         /\ d.OID \in OIDs
         /\ d.OID = oid
         /\ hookErr = <<>>
         /\ \A i \in 1..Len(log) :
              /\ ~HasPrefix(log[i], "Failed to scan oid: ")
              /\ ~HasPrefix(log[i], "Failed to register new type: ")
    /\ hookErr # <<>> =>
         /\ registered = {}
         /\ pc \in {"hook_return", "exit"}
         /\ \/ log[1] = "Failed to scan oid: " \o hookErr[1]
            \/ log[1] = "Failed to register new type: " \o hookErr[1]
    /\ (pc = "hook_return" /\ hookErr = <<>>) => registered # {}

C10_Witness ==
    /\ pc = "hook_return"
    /\ registered = {[Value |-> <<"resolution">>, Name |-> "resolution", OID |-> 16402]}

====
